---- MODULE Spec2Model ----
(***************************************************************************)
(* A model of yh_get_all_sym.py: the crawl of a paginated lookup service   *)
(* by 2-character prefixes, refined to 3-character prefixes when a prefix  *)
(* saturates the result window.                                            *)
(*                                                                         *)
(* The event loop is single-threaded: a coroutine runs without             *)
(* interruption between two awaits.  An action of a request below is one   *)
(* such run: it starts where the coroutine is resumed (a response arrives, *)
(* an attempt fails, a sleep ends) and ends at its next await.  main, the  *)
(* only coroutine that can run while no request is in flight, is split at  *)
(* its calls of process_search_term, their returns and the merge.          *)
(*                                                                         *)
(* The lookup service is the environment.  A probe response is a text (a   *)
(* sequence of characters), a block response is a page (a table of rows or *)
(* no table at all); what the service answers and when is chosen           *)
(* nondeterministically from the bounded sets defined below.               *)
(***************************************************************************)
EXTENDS Integers, Sequences, FiniteSets, TLC

VARIABLES
    pc,           \* where main is suspended
    c1, c2, c3,   \* main's loop indices into search_chars (c3 = 0: not refining)
    search_term,  \* main's current search term
    probe,        \* the fetch_url call of process_search_term's probe request
    probe_body,   \* process_search_term's local body
    count,        \* process_search_term's local count
    tasks,        \* process_search_term's list tasks, given to asyncio.gather
    result,       \* the set the last process_search_term call returned
    symbols,      \* main's local symbols
    all_symbols,  \* main's all_symbols
    crawled,      \* history: the search terms passed to process_search_term
    got,          \* history: every symbol a process_search_term call returned
    large,        \* history: the number of probes answered with a large count
    nupset,       \* history: the number of requests that deviated
    output_file   \* the texts written to yh_all_symbols.txt, in order

vars == <<pc, c1, c2, c3, search_term, probe, probe_body, count, tasks, result, symbols,
          all_symbols, crawled, got, large, nupset, output_file>>

\* main's loop variables, the service's budgets
loopVars == <<c1, c2, c3, search_term>>
envVars == <<large, nupset>>

----------------------------------------------------------------------------
(* Bounds of the model *)

\* The number of characters of search_chars the model crawls with
\* (the program uses all 36).
NChars == 2

\* The blocks of a prefix whose responses are unconstrained are those at the
\* NFlaky lowest offsets.  Every other block is answered at its first
\* attempt with a full page, in the order of the offsets and before the
\* unconstrained ones.
NFlaky == 2

\* At most this many probes of a run are answered with a count that plans
\* more blocks than the unconstrained ones.
MaxLarge == 2

\* At most this many requests of a run deviate: an attempt of the request
\* fails, or the page it reads is not a full one.
MaxUpset == 1

----------------------------------------------------------------------------
(* Program constants *)

retries == 3          \* fetch_url's default
WINDOW == 9000        \* min(count, 9000)
BLOCK == 100          \* the step of range(), and c=100
THRESHOLD == 9000     \* len(symbols) >= 9000
PROBE_SIZE == 25      \* c=25 of the probe request

\* chr(65..90) + chr(48..57)
ALPHABET ==
    <<"A","B","C","D","E","F","G","H","I","J","K","L","M","N","O","P","Q","R",
      "S","T","U","V","W","X","Y","Z","0","1","2","3","4","5","6","7","8","9">>

search_chars == SubSeq(ALPHABET, 1, NChars)

----------------------------------------------------------------------------
(* Python's str.find, slicing and int(), on sequences of characters *)

Min(a, b) == IF a < b THEN a ELSE b
Max(a, b) == IF a > b THEN a ELSE b

\* s.find(sub, from): the lowest 0-based index >= from at which sub occurs
\* in s, or -1.
Find(s, sub, from) ==
    LET at == {i \in from..(Len(s) - Len(sub)) :
                  \A k \in 1..Len(sub) : s[i + k] = sub[k]}
    IN  IF at = {} THEN -1 ELSE CHOOSE i \in at : \A j \in at : i <= j

\* s[i:j]: a negative index counts from the end, both are clamped to 0..len.
Slice(s, i, j) ==
    LET norm(k) == IF k < 0 THEN Max(k + Len(s), 0) ELSE Min(k, Len(s))
        lo == norm(i)
        hi == norm(j)
    IN  IF lo >= hi THEN <<>> ELSE SubSeq(s, lo + 1, hi)

DIGITS == <<"0","1","2","3","4","5","6","7","8","9">>

IsDigit(ch) == \E d \in 1..10 : DIGITS[d] = ch

DigitVal(ch) == (CHOOSE d \in 1..10 : DIGITS[d] = ch) - 1

\* s.strip() for the whitespace the model's texts hold (the blank).
Strip(s) ==
    LET keep == {i \in 1..Len(s) : s[i] # " "}
    IN  IF keep = {} THEN <<>>
        ELSE SubSeq(s, CHOOSE i \in keep : \A j \in keep : i <= j,
                       CHOOSE i \in keep : \A j \in keep : i >= j)

RECURSIVE DigitsVal(_)
DigitsVal(s) ==
    IF s = <<>> THEN 0
    ELSE 10 * DigitsVal(SubSeq(s, 1, Len(s) - 1)) + DigitVal(s[Len(s)])

\* int(s): blanks around, an optional sign, then one or more digits;
\* anything else is a ValueError.
ParseInt(s) ==
    LET t      == Strip(s)
        signed == t # <<>> /\ t[1] \in {"+", "-"}
        digs   == IF signed THEN Tail(t) ELSE t
    IN  IF digs # <<>> /\ \A i \in 1..Len(digs) : IsDigit(digs[i])
        THEN [ok |-> TRUE,
              val |-> IF signed /\ t[1] = "-" THEN 0 - DigitsVal(digs)
                      ELSE DigitsVal(digs)]
        ELSE [ok |-> FALSE, val |-> 0]

MARKER == <<"S","t","o","c","k","s"," ","(">>

\* extract_count: the integer between 'Stocks (' and the next ')', 0 when
\* int() raises ValueError.
extract_count(body) ==
    LET start == Find(body, MARKER, 0) + 8
        end   == Find(body, <<")">>, start)
        n     == ParseInt(Slice(body, start, end))
    IN  IF n.ok THEN n.val ELSE 0

----------------------------------------------------------------------------
(* The lookup service *)

\* The decimal numeral of n, as the service prints it.
RECURSIVE Numeral(_)
Numeral(n) ==
    IF n < 0 THEN <<"-">> \o Numeral(0 - n)
    ELSE IF n < 10 THEN <<DIGITS[n + 1]>>
    ELSE Numeral(n \div 10) \o <<DIGITS[(n % 10) + 1]>>

\* The match counts the service reports.
Counts == {0, 42, 150, 8950, 15000, -5}

\* The texts a probe request is answered with: the result tabs with the
\* count of the Stocks tab, a page without the tabs, and a tab whose count
\* is not a number.
TabsBody(n) ==
    <<"A","l","l"," ","(","7",")"," ">> \o MARKER \o Numeral(n)
        \o <<")"," ","E","T","F","s">>

ProbeBodies ==
    {TabsBody(n) : n \in Counts}
        \cup {<<"<","h","t","m","l",">">>}
        \cup {MARKER \o <<"N","/","A",")">>}

\* More counts, at the edges of the blocks and of the window.
EdgeCounts == {1, 100, 101, 8901, 9000, 9001}

EdgeBodies == {TabsBody(n) : n \in EdgeCounts}

\* Other texts: pages without the Stocks tab that hold digits ('Found: 250)
\* ok' and 'Results 42 '), a Stocks tab with no count, and the empty text.
StrayBodies ==
    {<<"F","o","u","n","d",":"," ","2","5","0",")"," ","o","k">>,
     <<"R","e","s","u","l","t","s"," ","4","2"," ">>,
     MARKER \o <<")">>,
     <<>>}

\* HTTP statuses; raise_for_status raises from 400 on.
Statuses == {200, 404}

\* The symbols of the service come in groups that a page lists together:
\* the page of rows at offset 100*k lists the group 2k+1 (its first 42
\* symbols) and the group 2k+2 (its other 58).  A set of symbols is the set
\* of the groups it holds, and len() adds up their sizes.
GroupSize(g) == IF g % 2 = 1 THEN 42 ELSE BLOCK - 42

\* len(s): the sizes of the groups of s, added up
SetLen(s) ==
    LET odd == {g \in s : g % 2 = 1}
    IN  Cardinality(odd) * GroupSize(1) + Cardinality(s \ odd) * GroupSize(2)

\* A page: whether the body holds the table, and for every row of the table
\* the text of its Symbol cell.  NO_CELL: the row has no Symbol cell (the
\* header row); BLANK: the cell's text strips to the empty string; g > 0:
\* the symbols of group g.
NO_CELL == -1
BLANK == 0

PageKinds == {"full", "short", "first", "none"}

\* The service lists the symbols of a 3-character term from the second page
\* of the numbering on.
Base(term) == IF Len(term) = 3 THEN 1 ELSE 0

\* The body of a block response: the rows from the offset on (a full page
\* of 100 or a short one), the rows of the first page again, or a page
\* without the table.
PageBody(term, block, kind) ==
    LET k == Base(term) + (IF kind = "first" THEN 0 ELSE block \div BLOCK)
    IN  IF kind = "none" THEN [table |-> FALSE, rows |-> <<>>]
        ELSE IF kind = "short"
        THEN [table |-> TRUE, rows |-> <<NO_CELL, 2 * k + 1, BLANK>>]
        ELSE [table |-> TRUE, rows |-> <<NO_CELL, 2 * k + 1, 2 * k + 2>>]

\* process_block's parsing: the stripped, non-empty Symbol cells of the
\* table's rows.
ParsePage(body) ==
    IF body.table
    THEN {body.rows[i] : i \in {j \in DOMAIN body.rows :
                                   body.rows[j] # NO_CELL /\ body.rows[j] # BLANK}}
    ELSE {}

----------------------------------------------------------------------------
(* fetch_url *)

\* A call of fetch_url: st is where it is suspended ("get": in the attempt,
\* from session.get to response.text(); "sleep": in asyncio.sleep(1)) or how
\* it ended ("returned", "raised"); attempt is the loop variable; gets and
\* delays count the calls of session.get and of asyncio.sleep.
FetchStates == {"get", "sleep", "returned", "raised"}

\* How an attempt ends: session.get raises ("connect"), or the response has a
\* status and then response.text() raises ("read") or returns the body
\* ("none").
Outcomes ==
    {[error |-> "connect", status |-> 0]}
        \cup [error : {"none", "read"}, status : Statuses]

\* No response yet
NoOutcome == [error |-> "none", status |-> 0]

\* from is how the attempt ended whose body the call returned.
NewFetch ==
    [st |-> "get", attempt |-> 0, gets |-> 1, delays |-> 0, from |-> NoOutcome]

\* No call of fetch_url
Idle ==
    [st |-> "idle", attempt |-> 0, gets |-> 0, delays |-> 0, from |-> NoOutcome]

InFlight(f) == f.st \in {"get", "sleep"}

\* raise_for_status
StatusRaises(status) == status >= 400

\* The except clause giving up one attempt early
AttemptFailedEarly(f) ==
    IF f.attempt = retries - 2
    THEN [f EXCEPT !.st = "raised"]
    ELSE [f EXCEPT !.st = "sleep", !.delays = @ + 1]

\* The except clause sleeping before it looks at the attempt
AttemptFailedSleeps(f) ==
    IF f.attempt = retries - 1
    THEN [f EXCEPT !.st = "raised", !.delays = @ + 1]
    ELSE [f EXCEPT !.st = "sleep", !.delays = @ + 1]

\* The except clause: re-raise on the last attempt, sleep otherwise.
AttemptFailed(f) ==
    IF f.attempt = retries - 1
    THEN [f EXCEPT !.st = "raised"]
    ELSE [f EXCEPT !.st = "sleep", !.delays = @ + 1]

\* The sleep is over: the next iteration of the loop calls session.get.
NextAttempt(f) ==
    [f EXCEPT !.st = "get", !.attempt = @ + 1, !.gets = @ + 1]

\* The attempt without response.raise_for_status()
SucceedsUnchecked(outcome) == outcome.error = "none"

\* Nothing raises in the attempt.
Succeeds(outcome) == outcome.error = "none" /\ ~StatusRaises(outcome.status)

\* The body of the try statement: return the body unless something raises.
AttemptEnded(f, outcome) ==
    IF Succeeds(outcome) THEN [f EXCEPT !.st = "returned", !.from = outcome]
    ELSE AttemptFailed(f)

----------------------------------------------------------------------------
(* process_search_term and process_block *)

\* The rows a request asks for: b is the offset of the first, c their number.
Rows(b, c) == b..(b + c - 1)

\* The probe's URL has b=0&c=25, a block's has b={block}&c=100.
ProbeRows == Rows(0, PROBE_SIZE)
BlockRows(block) == Rows(block, BLOCK)

\* list(range(start, stop, step)), step > 0
Range(start, stop, step) ==
    IF stop <= start THEN <<>>
    ELSE [i \in 1..(((stop - start - 1) \div step) + 1) |->
             start + (i - 1) * step]

\* Plan without the window: range(0, count, 100)
PlanNoCap(n) == Range(0, n, BLOCK)

\* The offsets process_search_term appends a process_block coroutine for.
Plan(n) == Range(0, Min(n, WINDOW), BLOCK)

\* A process_block coroutine: its block, its search_term (the argument
\* process_search_term passes on), its fetch_url call, and how it
\* ended: the kind of the page it parsed, "caught" when its except clause
\* caught what fetch_url raised, "escaped" if an exception leaves it.
NewTask(block) ==
    [block |-> block, term |-> search_term, f |-> NewFetch, page |-> "pending"]

\* process_block without its try statement: the exception leaves it
BlockNoExcept(t) == [t EXCEPT !.page = "escaped"]

\* except Exception in process_block: log, then return symbols, still empty
BlockExcept(t) == [t EXCEPT !.page = "caught"]

\* process_block after its fetch_url call went on to f and, if it returned,
\* read a page of this kind
TaskAfter(t, f, kind) ==
    IF f.st = "raised" THEN BlockExcept([t EXCEPT !.f = f])
    ELSE IF f.st = "returned" THEN [t EXCEPT !.f = f, !.page = kind]
    ELSE [t EXCEPT !.f = f]

\* The coroutines started and not awaited
DoneNotAwaited(t) == TRUE

\* A coroutine that asyncio.gather no longer waits for
Done(t) == ~InFlight(t.f)

\* What process_block returns: the symbols of the page, the empty set when
\* fetch_url raised.
TaskSymbols(term, t) ==
    IF t.page \in PageKinds THEN ParsePage(PageBody(term, t.block, t.page))
    ELSE {}

\* An assignment in place of the update
updateAssigns(s, t) == t

\* set.symmetric_difference_update in place of set.update
updateSymDiff(s, t) == (s \ t) \cup (t \ s)

\* set.update
update(s, t) == s \cup t

\* for result in results: symbols.update(result)
Gathered(term, ts, acc) ==
    update(acc, UNION {TaskSymbols(term, ts[i]) : i \in DOMAIN ts})

\* The blocks whose responses are unconstrained.
Flaky(block) == block < NFlaky * BLOCK

Pending == {i \in DOMAIN tasks : ~Done(tasks[i])}

\* The tasks that may be answered next.
Eligible ==
    LET steady == {i \in Pending : ~Flaky(tasks[i].block)}
    IN  IF steady = {} THEN Pending
        ELSE {CHOOSE i \in steady : \A j \in steady : i <= j}

IsLarge(n) == \E i \in DOMAIN Plan(n) : ~Flaky(Plan(n)[i])

\* The request of the fetch_url call f deviates, for the first time unless
\* an attempt of it has failed before.
Deviated(f) == f.gets > 1
MayDeviate(f) == Deviated(f) \/ nupset < MaxUpset
Deviate(f) == nupset' = IF Deviated(f) THEN nupset ELSE nupset + 1

\* process_search_term without its try statement
TermNoExcept == "propagate"

\* except Exception in process_search_term: log, then return symbols
TermExcept == "return"

----------------------------------------------------------------------------
(* main *)

\* The two loops nested the other way round
NextPairSwapped(i, j) ==
    IF i < Len(search_chars) THEN <<i + 1, j>>
    ELSE IF j < Len(search_chars) THEN <<1, j + 1>>
    ELSE <<0, 0>>

\* The two nested for loops: the indices after (i, j), <<0, 0>> at the end
NextPair(i, j) ==
    IF j < Len(search_chars) THEN <<i, j + 1>>
    ELSE IF i < Len(search_chars) THEN <<i + 1, 1>>
    ELSE <<0, 0>>

Term2(i, j) == <<search_chars[i], search_chars[j]>>

\* search_term = search_term + c3 in place of c1 + c2 + c3
Term3Appends(i, j, k) == search_term \o <<search_chars[k]>>

Term3(i, j, k) == <<search_chars[i], search_chars[j], search_chars[k]>>

Init ==
    /\ pc = "call"
    /\ c1 = 1 /\ c2 = 1 /\ c3 = 0
    /\ search_term = Term2(1, 1)
    /\ probe = Idle
    /\ probe_body = <<>>
    /\ count = 0
    /\ tasks = <<>>
    /\ result = {}
    /\ symbols = {}
    /\ all_symbols = {}
    /\ crawled = <<>>
    /\ got = {}
    /\ large = 0
    /\ nupset = 0
    /\ output_file = <<>>

\* main calls process_search_term(session, search_term), which calls
\* fetch_url for the probe request.
Call ==
    /\ pc = "call"
    /\ pc' = "probe"
    /\ probe' = NewFetch
    /\ crawled' = Append(crawled, search_term)
    /\ UNCHANGED <<loopVars, envVars, probe_body, count, tasks, result, symbols,
                   all_symbols, got, output_file>>

\* An exception reaches the except clause of process_search_term, which
\* returns symbols as it is then: empty.  An exception that left
\* process_search_term would leave main.
TermRaised ==
    /\ pc' = IF TermExcept = "return" THEN "returned" ELSE "aborted"
    /\ result' = {}
    /\ UNCHANGED got

\* The probe's fetch_url goes on to f.
ProbeStep(f) ==
    /\ probe' = f
    /\ IF f.st = "raised"
       THEN TermRaised
       ELSE UNCHANGED <<pc, result, got>>
    /\ UNCHANGED <<loopVars, large, probe_body, count, tasks, symbols, all_symbols,
                   crawled, output_file>>

\* An attempt of the probe fails.
ProbeFails(outcome) ==
    /\ pc = "probe" /\ probe.st = "get"
    /\ MayDeviate(probe) /\ Deviate(probe)
    /\ ~Succeeds(outcome)
    /\ ProbeStep(AttemptEnded(probe, outcome))

ProbeWake ==
    /\ pc = "probe" /\ probe.st = "sleep"
    /\ UNCHANGED nupset
    /\ ProbeStep(NextAttempt(probe))

\* The probe's body is there: extract the count; return when it is 0, else
\* plan the blocks and start them all (each runs up to its session.get).
\* Without a block asyncio.gather is done at once.
ProbeBody(outcome, body) ==
    /\ pc = "probe" /\ probe.st = "get"
    /\ Succeeds(outcome)
    /\ probe' = AttemptEnded(probe, outcome)
    /\ probe_body' = body
    /\ count' = extract_count(body)
    /\ IF IsLarge(count') THEN large < MaxLarge /\ large' = large + 1
                          ELSE large' = large
    /\ IF count' = 0
       THEN tasks' = <<>> /\ pc' = "returned"
       ELSE /\ tasks' = [i \in DOMAIN Plan(count') |-> NewTask(Plan(count')[i])]
            /\ pc' = IF tasks' = <<>> THEN "returned" ELSE "gather"
    /\ UNCHANGED <<loopVars, nupset, result, got, symbols, all_symbols,
                   crawled, output_file>>

\* The task at i goes on to t
BlockStep(i, t) ==
    /\ tasks' = [tasks EXCEPT ![i] = t]
    /\ UNCHANGED <<pc, loopVars, probe, probe_body, count, result, symbols, all_symbols,
                   crawled, got, large, output_file>>

\* An attempt of a block fails.
BlockFails(i, outcome) ==
    /\ pc = "gather" /\ tasks[i].f.st = "get"
    /\ Flaky(tasks[i].block)
    /\ MayDeviate(tasks[i].f) /\ Deviate(tasks[i].f)
    /\ ~Succeeds(outcome)
    /\ BlockStep(i, TaskAfter(tasks[i], AttemptEnded(tasks[i].f, outcome),
                              "pending"))

BlockWake(i) ==
    /\ pc = "gather" /\ tasks[i].f.st = "sleep"
    /\ UNCHANGED nupset
    /\ BlockStep(i, TaskAfter(tasks[i], NextAttempt(tasks[i].f), "pending"))

\* A block's body is there: process_block parses it and returns.
BlockBody(i, outcome, kind) ==
    /\ pc = "gather" /\ tasks[i].f.st = "get"
    /\ IF kind = "full" THEN UNCHANGED nupset
       ELSE /\ Flaky(tasks[i].block)
            /\ MayDeviate(tasks[i].f) /\ Deviate(tasks[i].f)
    /\ Succeeds(outcome)
    /\ BlockStep(i, TaskAfter(tasks[i], AttemptEnded(tasks[i].f, outcome),
                              kind))

\* asyncio.gather is done when every process_block has returned, and then
\* process_search_term unites the results and returns; it raises as soon as
\* an exception has left a process_block.
GatherDone ==
    /\ pc = "gather"
    /\ IF \E i \in DOMAIN tasks : tasks[i].page = "escaped"
       THEN TermRaised
       ELSE /\ \A i \in DOMAIN tasks : Done(tasks[i])
            /\ result' = Gathered(search_term, tasks, {})
            /\ got' = got \cup result'
            /\ pc' = "returned"
    /\ UNCHANGED <<loopVars, envVars, probe, probe_body, count, tasks, symbols,
                   all_symbols, crawled, output_file>>

\* A refinement test on the probed count
SaturatedByCount(s) == count >= THRESHOLD

\* The refinement test of main
Saturated(s) == SetLen(s) >= THRESHOLD

\* process_search_term returned to main: for a 2-character term main
\* decides whether to refine, for a 3-character one it updates symbols and
\* goes on with the next c3.  The frame of process_search_term is gone.
Returned ==
    /\ pc = "returned"
    /\ IF c3 = 0
       THEN /\ symbols' = result
            /\ IF Saturated(symbols')
               THEN c3' = 1 /\ search_term' = Term3(c1, c2, 1) /\ pc' = "call"
               ELSE UNCHANGED <<c3, search_term>> /\ pc' = "merge"
       ELSE /\ symbols' = update(symbols, result)
            /\ IF c3 < Len(search_chars)
               THEN c3' = c3 + 1 /\ search_term' = Term3(c1, c2, c3 + 1)
                    /\ pc' = "call"
               ELSE UNCHANGED <<c3, search_term>> /\ pc' = "merge"
    /\ probe' = Idle /\ probe_body' = <<>> /\ count' = 0
    /\ tasks' = <<>> /\ result' = {}
    /\ UNCHANGED <<c1, c2, all_symbols, crawled, got, large, nupset,
                   output_file>>

\* all_symbols.update(symbols), then the next c2, the next c1, or the end
\* of the loops.  symbols is not read again before it is assigned.
Merge ==
    /\ pc = "merge"
    /\ all_symbols' = update(all_symbols, symbols)
    /\ symbols' = {}
    /\ c3' = 0
    /\ LET next == NextPair(c1, c2)
       IN  IF next # <<0, 0>>
           THEN /\ c1' = next[1] /\ c2' = next[2]
                /\ search_term' = Term2(next[1], next[2])
                /\ pc' = "call"
           ELSE UNCHANGED <<c1, c2, search_term>> /\ pc' = "write"
    /\ UNCHANGED <<envVars, probe, probe_body, count, tasks, result, crawled, got,
                   output_file>>

\* output_file.write_text(str(all_symbols))
Write ==
    /\ pc = "write"
    /\ output_file' = Append(output_file, all_symbols)
    /\ pc' = "done"
    /\ UNCHANGED <<loopVars, envVars, probe, probe_body, count, tasks, result, symbols,
                   all_symbols, crawled, got>>

\* One call of process_search_term, with the probe answered by a body
\* of bodies
TermNext(bodies) ==
    \/ \E outcome \in Outcomes : ProbeFails(outcome)
    \/ ProbeWake
    \/ \E outcome \in Outcomes : \E body \in bodies : ProbeBody(outcome, body)
    \/ \E i \in Eligible : \E outcome \in Outcomes : BlockFails(i, outcome)
    \/ \E i \in Eligible : BlockWake(i)
    \/ \E i \in Eligible : \E outcome \in Outcomes : \E kind \in PageKinds :
          BlockBody(i, outcome, kind)
    \/ GatherDone

Next ==
    \/ Call
    \/ TermNext(ProbeBodies)
    \/ Returned
    \/ Merge
    \/ Write

\* The crawl
Spec == Init /\ [][Next]_vars

\* The crawl when every HTTP attempt ends and the event loop resumes every
\* coroutine that is ready: a step that stays possible is taken.
FairSpec == Spec /\ WF_vars(Next)

NextCall ==
    \/ Call
    \/ TermNext(ProbeBodies \cup EdgeBodies \cup StrayBodies)

\* The first call of process_search_term, up to its return
SpecCall == Init /\ [][NextCall]_vars

\* The same when every HTTP attempt ends and every sleep is over in time
FairSpecCall == SpecCall /\ WF_vars(NextCall)

TypeOK ==
    /\ pc \in {"call", "probe", "gather", "returned", "merge", "write", "done",
               "aborted"}
    /\ c1 \in 1..NChars /\ c2 \in 1..NChars /\ c3 \in 0..NChars
    /\ probe.st \in FetchStates \cup {"idle"}
    /\ \A i \in DOMAIN tasks : tasks[i].f.st \in FetchStates

----------------------------------------------------------------------------
(* The claims *)

\* C1: the 3-character extensions of a 2-character prefix are crawled if
\* and only if the count of the prefix's probe is >= 9000, whatever the
\* blocks return.
C1_RefineIffCount ==
    [][(pc = "returned" /\ c3 = 0 /\ pc' # "returned")
          => ((pc' = "call" /\ c3' = 1) <=> count >= 9000)]_vars

\* C2: for a probed count c > 0 the planned offsets are exactly the
\* multiples of 100 from 0 on that are below min(c, 9000), each once.
C2_PlannedOffsets ==
    pc = "gather" =>
        LET cap == IF count < 9000 THEN count ELSE 9000
        IN  /\ count > 0
            /\ \A i \in DOMAIN tasks :
                  /\ tasks[i].block >= 0
                  /\ tasks[i].block % 100 = 0
                  /\ tasks[i].block < cap
            /\ \A k \in 0..((cap - 1) \div 100) :
                  Cardinality({i \in DOMAIN tasks : tasks[i].block = 100 * k}) = 1
            /\ (count = 42 => Len(tasks) = 1)
            /\ (count = 15000 => Len(tasks) = 90)

\* The count 15000 has planned the 90 blocks 0..8900.
C2_Witness ==
    /\ pc = "gather" /\ count = 15000
    /\ {tasks[i].block : i \in DOMAIN tasks} = {100 * k : k \in 0..89}

\* C3: blocks are requested only after the probe returned and gave a count
\* > 0.  When the probe's fetch_url raises or the count is 0, the call
\* requests no block and returns the empty set, nothing is raised to main,
\* and main goes on.
C3_NoBlocksWithoutCount ==
    /\ [](tasks # <<>> => (probe.st = "returned" /\ count > 0))
    /\ [](pc # "aborted")
    /\ [][(pc = "probe" /\ (probe'.st = "raised" \/ (probe'.st = "returned" /\ count' = 0)))
             => (pc' = "returned" /\ result' = {} /\ tasks' = <<>>)]_vars
    /\ [][(pc = "returned" /\ tasks = <<>> /\ pc' # "returned")
             => (pc' \in {"call", "merge"} /\ UNCHANGED all_symbols)]_vars

\* The probe has exhausted its retries and the call has returned.
C3_Witness ==
    pc = "returned" /\ probe.st = "raised" /\ tasks = <<>> /\ result = {}

\* C4: when the call returns after its blocks, every block is over, a block
\* whose fetch_url raised has contributed nothing, and the set returned is
\* the union of the symbols of the pages of the blocks whose fetch_url
\* returned.
C4_FailedBlockIsolated ==
    (pc = "returned" /\ tasks # <<>>) =>
        /\ \A i \in DOMAIN tasks : tasks[i].f.st \in {"returned", "raised"}
        /\ \A i \in DOMAIN tasks :
              tasks[i].f.st = "returned" => tasks[i].page \in PageKinds
        /\ result = UNION {ParsePage(PageBody(search_term, tasks[i].block,
                                              tasks[i].page)) :
                             i \in {j \in DOMAIN tasks :
                                       tasks[j].f.st = "returned"}}

\* One block has exhausted its retries, another one has given its symbols.
C4_Witness ==
    /\ pc = "returned"
    /\ \E i, j \in DOMAIN tasks :
          /\ tasks[i].f.st = "raised"
          /\ tasks[j].f.st = "returned"
          /\ ParsePage(PageBody(search_term, tasks[j].block, tasks[j].page)) # {}
          /\ ParsePage(PageBody(search_term, tasks[j].block, tasks[j].page))
                \subseteq result

\* A step of a fetch_url call from f to g, for C5: a call that returns at
\* its k-th attempt has made k attempts and k-1 delays, k <= 3; an attempt
\* before the third that fails is followed by a delay and then by another
\* attempt; a call that has returned makes no other attempt.
FetchStepC5(f, g) ==
    /\ (f.st = "get" /\ g.st = "returned")
          => (g.gets = f.gets /\ g.gets \in 1..3 /\ g.delays = g.gets - 1)
    /\ (f.st = "get" /\ f.gets < 3 /\ g # f)
          => (g.st = "returned"
                \/ (g.st = "sleep" /\ g.gets = f.gets /\ g.delays = f.delays + 1))
    /\ (f.st = "sleep" /\ g # f)
          => (g.st = "get" /\ g.gets = f.gets + 1 /\ g.delays = f.delays)
    /\ (f.st = "returned") => g = f

SameCall == pc \in {"probe", "gather"} /\ pc' \in {"probe", "gather", "returned"}

\* C5: a fetch_url call, the probe's or a block's, that succeeds at its k-th
\* attempt (k <= 3) has made exactly k attempts and k-1 delays, one after
\* each failure, and makes no attempt after the one that succeeded.
C5_AttemptsAndDelays ==
    [][SameCall =>
          /\ FetchStepC5(probe, probe')
          /\ \A i \in DOMAIN tasks :
                i \in DOMAIN tasks' => FetchStepC5(tasks[i].f, tasks'[i].f)]_vars

\* A block's call has returned at its third attempt, after two delays.
C5_Witness ==
    \E i \in DOMAIN tasks :
        /\ tasks[i].f.st = "returned"
        /\ tasks[i].f.gets = 3
        /\ tasks[i].f.delays = 2
        /\ tasks[i].page \in PageKinds

\* A step of a fetch_url call from f to g, for C6: the call raises only at
\* the failure of its third attempt, after two delays and without another.
FetchStepC6(f, g) ==
    /\ (f.st = "get" /\ g.st = "raised")
          => (f.gets = 3 /\ g.gets = 3 /\ f.delays = 2 /\ g.delays = 2)
    /\ (f.st = "raised") => g = f

\* C6: a fetch_url call whose three attempts fail raises after exactly three
\* attempts and two delays; a block whose call raised is over and gives the
\* empty set, the others go on, and nothing is raised to main.
C6_ExhaustedRetries ==
    /\ [][SameCall =>
             /\ FetchStepC6(probe, probe')
             /\ \A i \in DOMAIN tasks :
                   i \in DOMAIN tasks' =>
                      /\ FetchStepC6(tasks[i].f, tasks'[i].f)
                      /\ tasks'[i].f.st = "raised" =>
                            /\ tasks'[i].page = "caught"
                            /\ TaskSymbols(search_term, tasks'[i]) = {}
                      /\ (tasks[i].f.st = "get" /\ tasks'[i].f.st = "raised")
                            => pc' = "gather"]_vars
    /\ [](pc # "aborted")
    /\ []((pc = "returned" /\ tasks # <<>>)
             => \A i \in DOMAIN tasks : tasks[i].f.st \in {"returned", "raised"})

\* A block's call has raised after three attempts and two delays, and
\* process_search_term has returned.
C6_Witness ==
    /\ pc = "returned"
    /\ \E i \in DOMAIN tasks :
          /\ tasks[i].f.st = "raised"
          /\ tasks[i].f.gets = 3
          /\ tasks[i].f.delays = 2

\* The 2-character terms in the order of the loops
Cross ==
    [n \in 1..(NChars * NChars) |->
        <<search_chars[((n - 1) \div NChars) + 1],
          search_chars[((n - 1) % NChars) + 1]>>]

IsTwo(t) == Len(t) = 2

\* The extension of a 3-character term t by the character after its last
NextExtension(t) ==
    LET k == CHOOSE n \in 1..NChars : search_chars[n] = t[3]
    IN  <<t[1], t[2], search_chars[k + 1]>>

\* C7: the 2-character terms are crawled in the order of the cross product,
\* each once and all of them by the end; the extensions of a refined prefix
\* are crawled in the order of the alphabet, all of them, right after the
\* prefix and before the next 2-character term.
C7_CrawlOrder ==
    LET twos == SelectSeq(crawled, IsTwo)
    IN  /\ Len(twos) <= Len(Cross)
        /\ twos = SubSeq(Cross, 1, Len(twos))
        /\ pc \in {"write", "done"} => twos = Cross
        /\ \A i \in DOMAIN crawled :
              LET t == crawled[i]
              IN  Len(t) # 2 =>
                    /\ Len(t) = 3
                    /\ i > 1
                    /\ IF t[3] = search_chars[1]
                       THEN crawled[i - 1] = <<t[1], t[2]>>
                       ELSE /\ Len(crawled[i - 1]) = 3
                            /\ crawled[i - 1][3] # search_chars[NChars]
                            /\ t = NextExtension(crawled[i - 1])
                    /\ t[3] # search_chars[NChars] =>
                          IF i < Len(crawled)
                          THEN crawled[i + 1] = NextExtension(t)
                          ELSE \/ pc \in {"probe", "gather", "returned"}
                               \/ pc = "call" /\ search_term = NextExtension(t)

\* The crawl is over and a prefix was refined.
C7_Witness ==
    /\ pc = "done"
    /\ \E i \in DOMAIN crawled : Len(crawled[i]) = 3
    /\ Len(SelectSeq(crawled, IsTwo)) = NChars * NChars

\* C8: every term crawled has 2 or 3 characters, whatever a 3-character
\* term yields.
C8_SingleLevel ==
    /\ Len(search_term) \in {2, 3}
    /\ \A i \in DOMAIN crawled : Len(crawled[i]) \in {2, 3}
    /\ c3 > 0 => Len(search_term) = 3

\* The call for a 3-character term has returned 9000 symbols or more, with
\* a count of 9000 or more.
C8_Witness ==
    /\ pc = "returned"
    /\ c3 > 0 /\ Len(search_term) = 3
    /\ count >= 9000
    /\ Saturated(result)

\* C9: all_symbols never loses a symbol; when a 2-character prefix is
\* merged, and at the end, it holds exactly the symbols that the calls of
\* process_search_term have returned.
C9_GlobalSetGrows ==
    /\ [][all_symbols \subseteq all_symbols']_vars
    /\ [](all_symbols \subseteq got)
    /\ [](((pc = "call" /\ c3 = 0) \/ pc \in {"write", "done"})
             => all_symbols = got)

\* The crawl is over, a prefix was refined and its extensions gave symbols
\* that the prefix had not given.
C9_Witness ==
    /\ pc = "done"
    /\ \E i \in DOMAIN crawled : Len(crawled[i]) = 3
    /\ SetLen(all_symbols) > 9000

\* C10: merging is idempotent and does not depend on the order of the sets
\* merged; merging a set that is contained changes nothing.
C10_MergeAlgebra ==
    pc = "merge" =>
        /\ update(all_symbols, all_symbols) = all_symbols
        /\ update(update(all_symbols, symbols), symbols)
              = update(all_symbols, symbols)
        /\ update(update(all_symbols, symbols), got)
              = update(update(all_symbols, got), symbols)
        /\ update(update({}, all_symbols), symbols)
              = update(update({}, symbols), all_symbols)
        /\ symbols \subseteq all_symbols
              => update(all_symbols, symbols) = all_symbols

\* A merge of two sets neither of which holds the other
C10_Witness ==
    /\ pc = "merge"
    /\ ~(symbols \subseteq all_symbols)
    /\ ~(all_symbols \subseteq symbols)

\* C11: when every attempt ends, the crawl ends, whatever fails: by then
\* every 2-character prefix was crawled, and the output file is written
\* once, after the last merge, with the final all_symbols.
C11_Terminates ==
    /\ <>(pc = "done")
    /\ [](pc = "done" =>
             /\ SelectSeq(crawled, IsTwo) = Cross
             /\ output_file = <<all_symbols>>
             /\ all_symbols = got)
    /\ [](output_file # <<>> => pc = "done")
    /\ [][output_file' # output_file =>
             /\ output_file = <<>>
             /\ output_file' = <<all_symbols>>
             /\ all_symbols = got
             /\ SelectSeq(crawled, IsTwo) = Cross
             /\ ~(\E i \in DOMAIN tasks : InFlight(tasks[i].f))]_vars
    /\ [][all_symbols' # all_symbols => output_file' = <<>>]_vars

\* The crawl is over although a request failed, and the file holds the
\* symbols.
C11_Witness ==
    /\ pc = "done"
    /\ nupset > 0
    /\ all_symbols # {}
    /\ output_file = <<all_symbols>>

\* C12: the requests in flight, sleeping ones included, all belong to the
\* term of the one call of process_search_term that is running; the probe
\* is not in flight together with a block; and main leaves a call, and
\* issues the next probe, only when no request of the call is in flight.
C12_OnePrefixAtATime ==
    /\ [](\A i \in DOMAIN tasks :
             InFlight(tasks[i].f) =>
                /\ pc = "gather"
                /\ tasks[i].term = search_term
                /\ search_term = crawled[Len(crawled)]
                /\ ~InFlight(probe))
    /\ [](InFlight(probe) =>
             /\ pc = "probe"
             /\ search_term = crawled[Len(crawled)])
    /\ [][(pc = "returned" /\ pc' # "returned") =>
             /\ ~InFlight(probe)
             /\ \A i \in DOMAIN tasks : ~InFlight(tasks[i].f)]_vars
    /\ [][(pc # "probe" /\ pc' = "probe") =>
             /\ ~InFlight(probe)
             /\ \A i \in DOMAIN tasks : ~InFlight(tasks[i].f)
             /\ InFlight(probe')]_vars

\* The call for a later term has returned after two blocks or more, one of
\* which exhausted its retries.
C12_Witness ==
    /\ pc = "returned"
    /\ Len(crawled) >= 2
    /\ Len(tasks) >= 2
    /\ \E i \in DOMAIN tasks : tasks[i].f.st = "raised"
    /\ \A i \in DOMAIN tasks : tasks[i].term = search_term /\ ~InFlight(tasks[i].f)

\* C13: all_symbols changes only in main's merge, a set union with main's
\* symbols, while no request is in flight; main comes to a merge only from
\* a call that has returned with every request of it over, and the term of
\* that call is the prefix merged or the last of its extensions.
C13_SingleWriter ==
    /\ [][all_symbols' # all_symbols =>
             /\ pc = "merge"
             /\ all_symbols' = all_symbols \cup symbols
             /\ ~InFlight(probe)
             /\ \A i \in DOMAIN tasks : ~InFlight(tasks[i].f)
             /\ crawled[Len(crawled)]
                   \in {<<search_chars[c1], search_chars[c2]>>,
                        <<search_chars[c1], search_chars[c2],
                          search_chars[NChars]>>}]_vars
    /\ [][(pc' = "merge" /\ pc # "merge") =>
             /\ pc = "returned"
             /\ ~InFlight(probe)
             /\ \A i \in DOMAIN tasks : ~InFlight(tasks[i].f)]_vars

\* A prefix that was refined has been merged.
C13_Witness ==
    /\ pc \in {"call", "write"} /\ c3 = 0
    /\ all_symbols # {}
    /\ crawled # <<>>
    /\ Len(crawled[Len(crawled)]) = 3
    /\ symbols = {}

\* The number of block requests in flight
NInFlight(ts) == Cardinality({i \in DOMAIN ts : InFlight(ts[i].f)})

\* C14: at most 90 block requests are in flight at a time, whatever the
\* count; all the blocks planned are in flight when they are launched, and
\* they are 90 when the count is greater than 8900.
C14_FanOutBound ==
    /\ [](NInFlight(tasks) <= 90)
    /\ [][(pc = "probe" /\ pc' = "gather") =>
             /\ NInFlight(tasks') = Len(tasks')
             /\ count' > 8900 => NInFlight(tasks') = 90]_vars

\* The count 8901 has 90 block requests in flight.
C14_Witness ==
    /\ pc = "gather" /\ count = 8901
    /\ NInFlight(tasks) = 90

\* The text s holds the marker 'Stocks (' followed by an integer (blanks
\* around it and a sign allowed, as int() reads it) and a ')'.
HoldsCount(s) ==
    \E i \in 0..(Len(s) - Len(MARKER)) :
        /\ Slice(s, i, i + Len(MARKER)) = MARKER
        /\ \E j \in (i + Len(MARKER))..(Len(s) - 1) :
              /\ s[j + 1] = ")"
              /\ ParseInt(Slice(s, i + Len(MARKER), j)).ok

\* C15: the count extracted from a body that does not hold the marker
\* 'Stocks (' followed by an integer and a ')' is 0; in particular the count
\* is 0 when the marker is missing.
C15_UnparseableIsZero ==
    (probe.st = "returned" /\ ~HoldsCount(probe_body)) => count = 0

\* The body a fetch_url call returned is the text of a response whose
\* status passed raise_for_status and that was read to its end.
WholeBody(f) ==
    f.st = "returned" =>
       /\ f.from.error = "none"
       /\ f.from.status \in Statuses
       /\ f.from.status < 400

\* C16: what fetch_url returns is the whole text of an attempt whose status
\* check and whose read both succeeded, so an attempt that fails either of
\* them is followed by a delay or, the third time, by the raise; and every
\* call ends, by returning or by raising.
C16_WholeBodyOrRaise ==
    /\ [](WholeBody(probe) /\ \A i \in DOMAIN tasks : WholeBody(tasks[i].f))
    /\ [][(InFlight(probe) /\ probe' # probe /\ probe'.st # "returned")
             => \/ probe'.st = "sleep" /\ probe.gets < 3
                \/ probe'.st = "get" /\ probe.st = "sleep"
                \/ probe'.st = "raised" /\ probe.gets = 3]_vars
    /\ [](probe_body # <<>> => probe.st = "returned")
    /\ (pc = "probe") ~> (pc \in {"gather", "returned"}
                            /\ probe.st \in {"returned", "raised"})
    /\ (pc = "gather") ~>
          (pc = "returned"
             /\ \A i \in DOMAIN tasks : tasks[i].f.st \in {"returned", "raised"})

\* The probe's call has returned a body at its second attempt.
C16_Witness ==
    /\ probe.st = "returned"
    /\ probe.gets = 2
    /\ probe.from = [error |-> "none", status |-> 200]
    /\ probe_body # <<>>

\* Every 3-character term crawled extends the 2-character term crawled
\* last before it.
C17_Structure ==
    \A i \in DOMAIN crawled :
        Len(crawled[i]) = 3 =>
            \E p \in 1..(i - 1) :
                /\ crawled[p] = <<crawled[i][1], crawled[i][2]>>
                /\ \A q \in (p + 1)..(i - 1) : Len(crawled[q]) = 3

\* C17: every 3-character term crawled extends the 2-character term crawled
\* last before it, and main starts on the extensions of a 2-character term
\* only when the count of its probe was >= 9000.
C17_ExtensionsOfSaturatedParent ==
    /\ []C17_Structure
    /\ [][(Len(search_term) = 2 /\ Len(search_term') = 3) =>
             /\ search_term' = search_term \o <<search_chars[1]>>
             /\ count >= 9000]_vars

\* C18: no block request asks for a row that the probe request has asked
\* for (the rows 0..24).
C18_ProbeRangeExcluded ==
    \A i \in DOMAIN tasks :
        /\ BlockRows(tasks[i].block) \cap ProbeRows = {}
        /\ \A r \in 0..24 : r \notin BlockRows(tasks[i].block)

\* C19: when the call for a 2-character term has returned, main goes on to
\* the first 3-character extension if and only if the set returned holds
\* 9000 symbols or more, whatever the probed count; else it merges.
C19_RefineIffResultSaturated ==
    [][(pc = "returned" /\ c3 = 0 /\ pc' # "returned") =>
          /\ (pc' = "call" /\ c3' = 1
                 /\ search_term' = search_term \o <<search_chars[1]>>)
                <=> SetLen(result) >= 9000
          /\ pc' = "merge" <=> SetLen(result) < 9000
          /\ symbols' = result]_vars

\* In a run that has refined a prefix, the call for another prefix has
\* returned fewer than 9000 symbols although its probed count was 15000.
C19_Witness ==
    /\ pc = "returned" /\ c3 = 0
    /\ count = 15000
    /\ result # {}
    /\ SetLen(result) < 9000
    /\ \E i \in DOMAIN crawled : Len(crawled[i]) = 3

====
